---- MODULE Spec2Model ----
(***************************************************************************)
(* flappy_bud: the simulation core of src/game.js (Bird, Pipe, Game) as a  *)
(* state machine.  One action per handler: Game.update, the keydown, click *)
(* and touchstart listeners; Game.reset is the operator they call.         *)
(*                                                                         *)
(* Numbers.  The program computes with JavaScript numbers on a 400 x 600   *)
(* pixel screen; TLC enumerates integers.  The model runs the same code on *)
(* a reduced screen: every geometric constant keeps the source's name and  *)
(* role, its value is scaled down (the source's value is given beside it)  *)
(* and every formula below is written in terms of the names, never of the  *)
(* values.  Arithmetic is exact (no floating-point rounding), and          *)
(* Math.random() draws land on the integer grid.                           *)
(***************************************************************************)
EXTENDS Integers, Sequences, FiniteSets

\* ---- the screen and the constants of game.js:5-29, scaled ---------------
SCREEN_WIDTH == 10
    \* 400 px in the source
SCREEN_HEIGHT == 12
    \* 600 px in the source
BIRD_X == 3
    \* 50
BIRD_WIDTH == 2
    \* 34
BIRD_HEIGHT == 2
    \* 24
GRAVITY == 1
    \* 0.5 px per tick per tick
JumpImpulse == 3
    \* 10: the magnitude of JUMP_STRENGTH
JUMP_STRENGTH == -JumpImpulse
PIPE_WIDTH == 3
    \* 80
PIPE_GAP == 5
    \* 150
PIPE_SPEED == 2
    \* 3 px per tick
SPAWN_INTERVAL == 3
    \* the literal 1500 (ms) of Game.update
FRAME_TIME == 2
    \* 1000 / FPS, 16.67 ms
TOP_MARGIN == 2
    \* the literal 50 of the Pipe constructor
RANGE_CUT == 4
    \* the literal 100 of the Pipe constructor

\* ---- bounds of the exploration ------------------------------------------
MaxClock == 7
    \* performance.now() is explored up to this reading
MaxLag == 1
    \* the clock may move this far between the two reads of one update

\* ---- state --------------------------------------------------------------
VARIABLES
    bird,           \* game.bird: [x, y, vel, width, height]
    pipes,          \* game.pipes: sequence of Pipe records, in creation order
    score,          \* game.score
    gameOver,       \* game.gameOver
    lastPipeSpawn,  \* game.lastPipeSpawn
    now,            \* the last reading of performance.now()
    nextId,         \* history: Pipe objects constructed since the last reset
    lastBorn,       \* history: clock reading at the latest Pipe construction, 0 if none
    resetSince,     \* history: reset() has run since that construction
    last,           \* history: the handler that ran last and the state it ran in
    lastTime,       \* the module-level lastTime of the frame driver
    frame,          \* history: the latest gameLoop call: its timestamp, the lastTime it
                    \* found and the number of update and draw calls it made
    tickCount,      \* history: update calls made by gameLoop so far
    firstFrame,     \* history: timestamp of the first frame callback, 0 if none yet
    twin,           \* the game object of the later source variant, fed the same calls
    quiet           \* the player has stopped sending jump inputs

sim == <<bird, pipes, score, gameOver, lastPipeSpawn>>
loopVars == <<lastTime, frame, tickCount, firstFrame>>
vars == <<bird, pipes, score, gameOver, lastPipeSpawn, now, nextId, lastBorn, resetSince, last,
          lastTime, frame, tickCount, firstFrame, twin, quiet>>

\* The Game object's fields as one value.
Snapshot == [bird |-> bird, pipes |-> pipes, score |-> score,
             gameOver |-> gameOver, lastPipeSpawn |-> lastPipeSpawn]

\* ---- Bird ---------------------------------------------------------------
\* a Bird constructor that forgets to halve the screen height
NewBirdAtFloor == [x |-> BIRD_X, y |-> SCREEN_HEIGHT, vel |-> 0,
                   width |-> BIRD_WIDTH, height |-> BIRD_HEIGHT]

NewBird == [x |-> BIRD_X, y |-> SCREEN_HEIGHT \div 2, vel |-> 0,
            width |-> BIRD_WIDTH, height |-> BIRD_HEIGHT]

\* a physics step without gravity
BirdUpdateNoGravity(b) == [b EXCEPT !.y = b.y + b.vel]

\* a physics step that moves the bird by its old velocity
BirdUpdateOldVel(b) == [b EXCEPT !.vel = b.vel + GRAVITY, !.y = b.y + b.vel]

BirdUpdate(b) ==
    LET v == b.vel + GRAVITY
    IN  [b EXCEPT !.vel = v, !.y = b.y + v]

\* a jump that adds the impulse to the velocity
BirdJumpAdditive(b) == [b EXCEPT !.vel = b.vel + JUMP_STRENGTH]

BirdJump(b) == [b EXCEPT !.vel = JUMP_STRENGTH]

GetBounds(b) == [left |-> b.x, right |-> b.x + b.width,
                 top |-> b.y, bottom |-> b.y + b.height]

\* ---- Pipe ---------------------------------------------------------------
\* Math.random() * (SCREEN_HEIGHT - gap - 100): a value in [0, range), on the grid.
RandomRange == 0 .. (SCREEN_HEIGHT - PIPE_GAP - RANGE_CUT - 1)

\* a Pipe constructor that places the bottom pipe from the raw draw
NewPipeBottomFromDraw(r, id) ==
    [x |-> SCREEN_WIDTH, width |-> PIPE_WIDTH, gap |-> PIPE_GAP,
     topHeight |-> r + TOP_MARGIN, bottomY |-> r + PIPE_GAP, passed |-> FALSE, id |-> id]

\* a Pipe constructor that adds the bottom margin to the draw as well
NewPipeBothMargins(r, id) ==
    LET top == r + RANGE_CUT
    IN  [x |-> SCREEN_WIDTH, width |-> PIPE_WIDTH, gap |-> PIPE_GAP,
         topHeight |-> top, bottomY |-> top + PIPE_GAP, passed |-> FALSE, id |-> id]

\* new Pipe(), r being the scaled random draw; id stands for the object's identity.
NewPipe(r, id) ==
    LET top == r + TOP_MARGIN
    IN  [x |-> SCREEN_WIDTH, width |-> PIPE_WIDTH, gap |-> PIPE_GAP,
         topHeight |-> top, bottomY |-> top + PIPE_GAP, passed |-> FALSE, id |-> id]

PipeUpdate(p) == [p EXCEPT !.x = p.x - PIPE_SPEED]

\* a collision test that forgets the bottom pipe
CheckCollisionTopOnly(p, b) ==
    LET bb == GetBounds(b)
    IN  bb.right > p.x /\ bb.left < p.x + p.width /\ bb.top < p.topHeight

CheckCollision(p, b) ==
    LET bb == GetBounds(b)
    IN  IF bb.right > p.x /\ bb.left < p.x + p.width /\ bb.top < p.topHeight
        THEN TRUE
        ELSE IF bb.right > p.x /\ bb.left < p.x + p.width /\ bb.bottom > p.bottomY
             THEN TRUE
             ELSE FALSE

\* an off-screen test on the pipe's left edge
IsOffscreenLeftEdge(p) == p.x < 0

IsOffscreen(p) == p.x + p.width < 0

\* ---- Game ---------------------------------------------------------------
\* The Game object before its constructor has assigned anything.
Undefined == [bird |-> "undefined", pipes |-> "undefined", score |-> "undefined",
              gameOver |-> "undefined", lastPipeSpawn |-> "undefined"]

\* reset() run on the fields g: the five assignments of the method.
Reset(g) == [g EXCEPT !.bird = NewBird, !.pipes = <<>>, !.score = 0,
                      !.gameOver = FALSE, !.lastPipeSpawn = 0]

\* The fields once the constructor has run: it calls reset() on the new object.
Constructed == Reset(Undefined)

\* a pass check that forgets the passed flag
ScoresAgain(p, b) == p.x + p.width < b.x

\* a pass check that compares the pipe's left edge
ScoresLeftEdge(p, b) == ~p.passed /\ p.x < b.x

\* a pass test met as soon as the pipe's left edge has reached the bird
ScoresOnReach(p, b) == ~p.passed /\ p.x < b.x + b.width

\* a pass test met already when the pipe's right edge touches the bird's x
ScoresOnTouch(p, b) == ~p.passed /\ p.x + p.width <= b.x

\* The condition of the pass check, on a pipe that has just been advanced.
Scores(p, b) == ~p.passed /\ p.x + p.width < b.x

\* The callback of pipes.forEach applied to pipe i and then to the rest, in order:
\* acc carries the pipes (each replaced once visited), the score and gameOver.
\* a loop that stops at the first pipe that collides
RECURSIVE ForEachPipeBreak(_, _, _)
ForEachPipeBreak(i, acc, b) ==
    IF i > Len(acc.pipes) THEN acc
    ELSE LET p1 == PipeUpdate(acc.pipes[i])
             scores == Scores(p1, b)
             p2 == IF scores THEN [p1 EXCEPT !.passed = TRUE] ELSE p1
             s2 == IF scores THEN acc.score + 1 ELSE acc.score
             next == [pipes |-> [acc.pipes EXCEPT ![i] = p2], score |-> s2,
                      gameOver |-> acc.gameOver]
         IN  IF CheckCollision(p2, b)
             THEN [next EXCEPT !.gameOver = TRUE]
             ELSE ForEachPipeBreak(i + 1, next, b)

RECURSIVE ForEachPipe(_, _, _)
ForEachPipe(i, acc, b) ==
    IF i > Len(acc.pipes) THEN acc
    ELSE LET p1 == PipeUpdate(acc.pipes[i])
             scores == Scores(p1, b)
             p2 == IF scores THEN [p1 EXCEPT !.passed = TRUE] ELSE p1
             s2 == IF scores THEN acc.score + 1 ELSE acc.score
             o2 == IF CheckCollision(p2, b) THEN TRUE ELSE acc.gameOver
         IN  ForEachPipe(i + 1,
                         [pipes |-> [acc.pipes EXCEPT ![i] = p2], score |-> s2, gameOver |-> o2],
                         b)

\* pipes.filter(pipe => !pipe.isOffscreen())
RECURSIVE FilterOnscreen(_)
FilterOnscreen(ps) ==
    IF ps = <<>> THEN <<>>
    ELSE IF IsOffscreen(Head(ps)) THEN FilterOnscreen(Tail(ps))
         ELSE <<Head(ps)>> \o FilterOnscreen(Tail(ps))

\* a spawn condition without the never-spawned sentinel
SpawnDueNoSentinel(g, t1) == t1 - g.lastPipeSpawn >= SPAWN_INTERVAL

\* a spawn condition that compares the clock, not the elapsed time
SpawnDueNoSubtract(g, t1) == g.lastPipeSpawn = 0 \/ t1 >= SPAWN_INTERVAL

\* The spawn condition of update, t1 being the first clock reading.
SpawnDue(g, t1) == g.lastPipeSpawn = 0 \/ t1 - g.lastPipeSpawn >= SPAWN_INTERVAL

\* a bounds check that forgets the top of the screen
OutOfBoundsFloorOnly(b) == b.y + b.height > SCREEN_HEIGHT

\* The screen-bounds check of update.
OutOfBounds(b) == b.y < 0 \/ b.y + b.height > SCREEN_HEIGHT

\* an update that runs the pipe loop on the bird as the previous tick left it
TickPipesFirst(g, t1, t2, r, id) ==
    LET spawn == SpawnDue(g, t1)
        ps1 == IF spawn THEN Append(g.pipes, NewPipe(r, id)) ELSE g.pipes
        lps == IF spawn THEN t2 ELSE g.lastPipeSpawn
        lp == ForEachPipe(1, [pipes |-> ps1, score |-> g.score, gameOver |-> g.gameOver], g.bird)
        ps2 == FilterOnscreen(lp.pipes)
        b1 == BirdUpdate(g.bird)
        over == IF OutOfBounds(b1) THEN TRUE ELSE lp.gameOver
    IN  [bird |-> b1, pipes |-> ps2, score |-> lp.score,
         gameOver |-> over, lastPipeSpawn |-> lps]

\* The body of Game.update() after its early return, run on the fields g: t1 and
\* t2 are the two readings of performance.now(), r the random draw and id the
\* identity of a Pipe it constructs.
Tick(g, t1, t2, r, id) ==
    LET b1 == BirdUpdate(g.bird)
        spawn == SpawnDue(g, t1)
        ps1 == IF spawn THEN Append(g.pipes, NewPipe(r, id)) ELSE g.pipes
        lps == IF spawn THEN t2 ELSE g.lastPipeSpawn
        lp == ForEachPipe(1, [pipes |-> ps1, score |-> g.score, gameOver |-> g.gameOver], b1)
        ps2 == FilterOnscreen(lp.pipes)
        over == IF OutOfBounds(b1) THEN TRUE ELSE lp.gameOver
    IN  [bird |-> b1, pipes |-> ps2, score |-> lp.score,
         gameOver |-> over, lastPipeSpawn |-> lps]

\* update() without its first line
UpdateStateNoReturn(g, t1, t2, r, id) == Tick(g, t1, t2, r, id)

\* Game.update(): nothing happens once the game is over.
UpdateState(g, t1, t2, r, id) ==
    IF g.gameOver THEN g ELSE Tick(g, t1, t2, r, id)

\* ---- the later source variant (game.js from line 276, and part_000) --------
\* Its Bird carries a rotation, kept here in degrees; its Pipe constructor,
\* Pipe.update, isOffscreen and getBounds are those of the first variant.
NewBirdLater == [x |-> BIRD_X, y |-> SCREEN_HEIGHT \div 2, vel |-> 0,
                 width |-> BIRD_WIDTH, height |-> BIRD_HEIGHT, rotation |-> 0]

BirdUpdateLater(b) ==
    LET v == b.vel + GRAVITY
        tilt == -v * 4
        atLeast == IF tilt < -30 THEN -30 ELSE tilt
        atMost == IF atLeast > 90 THEN 90 ELSE atLeast
    IN  [b EXCEPT !.vel = v, !.y = b.y + v, !.rotation = atMost]

BirdJumpLater(b) == [b EXCEPT !.vel = JUMP_STRENGTH]

\* a nested collision test that asks for both pipes at once
CheckCollisionNestedBoth(p, b) ==
    LET bb == GetBounds(b)
    IN  IF bb.right > p.x /\ bb.left < p.x + p.width
        THEN bb.top < p.topHeight /\ bb.bottom > p.bottomY
        ELSE FALSE

\* checkCollision with the horizontal test outside and the vertical one inside
CheckCollisionNested(p, b) ==
    LET bb == GetBounds(b)
    IN  IF bb.right > p.x /\ bb.left < p.x + p.width
        THEN IF bb.top < p.topHeight \/ bb.bottom > p.bottomY THEN TRUE ELSE FALSE
        ELSE FALSE

ResetLater(g) == [g EXCEPT !.bird = NewBirdLater, !.pipes = <<>>, !.score = 0,
                           !.gameOver = FALSE, !.lastPipeSpawn = 0]

ConstructedLater == ResetLater(Undefined)

RECURSIVE ForEachPipeLater(_, _, _)
ForEachPipeLater(i, acc, b) ==
    IF i > Len(acc.pipes) THEN acc
    ELSE LET p1 == PipeUpdate(acc.pipes[i])
             scores == ~p1.passed /\ p1.x + p1.width < b.x
             p2 == IF scores THEN [p1 EXCEPT !.passed = TRUE] ELSE p1
             s2 == IF scores THEN acc.score + 1 ELSE acc.score
             o2 == IF CheckCollisionNested(p2, b) THEN TRUE ELSE acc.gameOver
         IN  ForEachPipeLater(i + 1,
                              [pipes |-> [acc.pipes EXCEPT ![i] = p2], score |-> s2,
                               gameOver |-> o2],
                              b)

\* update() of the later variant; t2 is read only if it spawns
UpdateStateLater(g, t1, t2, r, id) ==
    IF g.gameOver THEN g
    ELSE LET b1 == BirdUpdateLater(g.bird)
             spawn == g.lastPipeSpawn = 0 \/ t1 - g.lastPipeSpawn >= SPAWN_INTERVAL
             ps1 == IF spawn THEN Append(g.pipes, NewPipe(r, id)) ELSE g.pipes
             lps == IF spawn THEN t2 ELSE g.lastPipeSpawn
             lp == ForEachPipeLater(1, [pipes |-> ps1, score |-> g.score,
                                        gameOver |-> g.gameOver], b1)
             ps2 == FilterOnscreen(lp.pipes)
             over == IF b1.y < 0 \/ b1.y + b1.height > SCREEN_HEIGHT THEN TRUE ELSE lp.gameOver
         IN  [bird |-> b1, pipes |-> ps2, score |-> lp.score,
              gameOver |-> over, lastPipeSpawn |-> lps]

\* its keydown listener: Space and KeyR only
KeyDownLater(g, code) ==
    IF code = "Space"
    THEN IF ~g.gameOver THEN [g EXCEPT !.bird = BirdJumpLater(g.bird)] ELSE g
    ELSE IF code = "KeyR" /\ g.gameOver THEN ResetLater(g) ELSE g

\* its click and touchstart listeners
PointerLater(g) ==
    IF ~g.gameOver THEN [g EXCEPT !.bird = BirdJumpLater(g.bird)] ELSE ResetLater(g)

\* Store the fields g into the Game object.
Store(g) ==
    /\ bird' = g.bird
    /\ pipes' = g.pipes
    /\ score' = g.score
    /\ gameOver' = g.gameOver
    /\ lastPipeSpawn' = g.lastPipeSpawn

\* The frame driver once the script has run: lastTime = 0 and the call
\* gameLoop(0), which finds deltaTime = 0, leaves it 0 and calls nothing.
LoopStarted ==
    /\ lastTime = 0
    /\ frame = [at |-> 0, before |-> 0, ticks |-> 0, draws |-> 0]
    /\ tickCount = 0
    /\ firstFrame = 0

\* The state once the Game constructor has run.  The clock has left 0 by then:
\* gameLoop calls update only from a frame callback whose timestamp exceeds a
\* non-zero lastTime by FRAME_TIME, so every reading update takes is positive.
Init ==
    /\ bird = Constructed.bird
    /\ pipes = Constructed.pipes
    /\ score = Constructed.score
    /\ gameOver = Constructed.gameOver
    /\ lastPipeSpawn = Constructed.lastPipeSpawn
    /\ now = 1
    /\ nextId = 0
    /\ lastBorn = 0
    /\ resetSince = FALSE
    /\ last = [op |-> "new", pre |-> Constructed, at |-> 0]
    /\ LoopStarted
    /\ twin = ConstructedLater
    /\ quiet = FALSE

\* history kept by a handler that calls reset()
ResetHistory ==
    /\ nextId' = 0
    /\ resetSince' = TRUE
    /\ UNCHANGED lastBorn

\* game.update() called when the clock has reached t0: it reads t1, and a later
\* reading t2 if it spawns.
\* with the readings and the draw given: the clock moves lag between the two
\* reads of a spawn, and r is the draw of the Pipe constructor.
UpdateWith(t0, t1, lag, r) ==
    LET spawn == ~gameOver /\ SpawnDue(Snapshot, t1)
        t2 == IF spawn THEN t1 + lag ELSE t1
    IN  /\ t2 <= MaxClock
        /\ spawn \/ (lag = 0 /\ r = 0)
        /\ gameOver => t1 = t0
        /\ Store(UpdateState(Snapshot, t1, t2, r, nextId))
        /\ now' = t2
        /\ nextId' = IF spawn THEN nextId + 1 ELSE nextId
        /\ lastBorn' = IF spawn THEN t2 ELSE lastBorn
        /\ resetSince' = IF spawn THEN FALSE ELSE resetSince
        /\ last' = [op |-> "update", pre |-> Snapshot, at |-> t1]

UpdateFrom(t0) ==
    \E t1 \in t0 .. MaxClock, lag \in 0 .. MaxLag, r \in RandomRange :
        UpdateWith(t0, t1, lag, r)

\* game.update() called on its own
Update == UpdateFrom(now) /\ UNCHANGED <<loopVars, twin, quiet>>

KeyCodes == {"Space", "KeyR", "KeyQ", "KeyA"}

\* a keydown listener whose Space key restarts a finished game
KeyDownSpaceResets ==
    \E code \in KeyCodes :
        /\ last' = [op |-> code, pre |-> Snapshot, at |-> now]
        /\ UNCHANGED <<now, loopVars, twin, quiet>>
        /\ IF code = "Space" /\ ~gameOver
           THEN /\ bird' = BirdJump(bird)
                /\ UNCHANGED <<pipes, score, gameOver, lastPipeSpawn, nextId, lastBorn, resetSince>>
           ELSE IF code \in {"Space", "KeyR"} /\ gameOver
                THEN Store(Reset(Snapshot)) /\ ResetHistory
                ELSE UNCHANGED <<sim, nextId, lastBorn, resetSince>>

\* a keydown listener whose KeyR restarts a running game
KeyDownResetAnytime ==
    \E code \in KeyCodes :
        /\ last' = [op |-> code, pre |-> Snapshot, at |-> now]
        /\ UNCHANGED <<now, loopVars, twin, quiet>>
        /\ IF code = "Space"
           THEN /\ IF ~gameOver THEN bird' = BirdJump(bird) ELSE UNCHANGED bird
                /\ UNCHANGED <<pipes, score, gameOver, lastPipeSpawn, nextId, lastBorn, resetSince>>
           ELSE IF code = "KeyR"
                THEN Store(Reset(Snapshot)) /\ ResetHistory
                ELSE UNCHANGED <<sim, nextId, lastBorn, resetSince>>

\* the keydown listener, on a key with the given code
KeyDownWith(code) ==
    /\ last' = [op |-> code, pre |-> Snapshot, at |-> now]
    /\ UNCHANGED <<now, loopVars>>
    /\ IF code = "Space"
       THEN /\ IF ~gameOver THEN bird' = BirdJump(bird) ELSE UNCHANGED bird
            /\ UNCHANGED <<pipes, score, gameOver, lastPipeSpawn, nextId, lastBorn, resetSince>>
       ELSE IF code = "KeyR" /\ gameOver
            THEN Store(Reset(Snapshot)) /\ ResetHistory
            ELSE UNCHANGED <<sim, nextId, lastBorn, resetSince>>

\* the keydown listener
KeyDown == \E code \in KeyCodes : KeyDownWith(code) /\ UNCHANGED <<twin, quiet>>

\* the body the click and touchstart listeners share
PointerBody(name) ==
    /\ last' = [op |-> name, pre |-> Snapshot, at |-> now]
    /\ UNCHANGED <<now, loopVars>>
    /\ IF ~gameOver
       THEN /\ bird' = BirdJump(bird)
            /\ UNCHANGED <<pipes, score, gameOver, lastPipeSpawn, nextId, lastBorn, resetSince>>
       ELSE Store(Reset(Snapshot)) /\ ResetHistory

Pointer(name) == PointerBody(name) /\ UNCHANGED <<twin, quiet>>

Click == Pointer("click")

TouchStart == Pointer("touchstart")

Next == Update \/ KeyDown \/ Click \/ TouchStart

Spec == Init /\ [][Next]_vars

\* ---- the frame driver ------------------------------------------------------
\* calls of game.update() by one gameLoop call that finds deltaTime
TicksDue(deltaTime) == IF deltaTime >= FRAME_TIME THEN 1 ELSE 0

\* a frame driver that renders on every callback
DrawCallsEveryCallback(ticks) == 1

\* calls of game.draw() by a gameLoop call that makes ticks calls of update
DrawCalls(ticks) == IF ticks >= 1 THEN 1 ELSE 0

\* a frame driver that forgets the remainder
NextLastTimeIsNow(currentTime, deltaTime) == currentTime

\* a frame driver that never moves lastTime on
NextLastTimeStays(currentTime, deltaTime) == currentTime - deltaTime

\* lastTime after a tick
NextLastTime(currentTime, deltaTime) == currentTime - (deltaTime % FRAME_TIME)

\* gameLoop(currentTime), a requestAnimationFrame callback: timestamps grow from
\* one callback to the next and no earlier clock reading exceeds them.
GameLoop ==
    \E currentTime \in (IF now > frame.at THEN now ELSE frame.at + 1) .. MaxClock :
        LET lt == IF lastTime = 0 THEN currentTime ELSE lastTime
            deltaTime == currentTime - lt
            ticks == TicksDue(deltaTime)
        IN  /\ IF ticks = 1
               THEN /\ UpdateFrom(currentTime)
                    /\ lastTime' = NextLastTime(currentTime, deltaTime)
               ELSE /\ lastTime' = lt
                    /\ now' = currentTime
                    /\ last' = [op |-> "gameLoop", pre |-> Snapshot, at |-> currentTime]
                    /\ UNCHANGED <<sim, nextId, lastBorn, resetSince>>
            /\ frame' = [at |-> currentTime, before |-> lastTime,
                         ticks |-> ticks, draws |-> DrawCalls(ticks)]
            /\ tickCount' = tickCount + ticks
            /\ firstFrame' = IF firstFrame = 0 THEN currentTime ELSE firstFrame
            /\ UNCHANGED <<twin, quiet>>

NextLoop == GameLoop \/ KeyDown \/ Click \/ TouchStart

SpecLoop == Init /\ [][NextLoop]_vars

\* ---- the two variants side by side -----------------------------------------
\* Each call is made on both games with the same clock readings, the same draw
\* and the same input.
UpdateBoth ==
    \E t1 \in now .. MaxClock, lag \in 0 .. MaxLag, r \in RandomRange :
        LET spawnLater == ~twin.gameOver /\
                          (twin.lastPipeSpawn = 0 \/ t1 - twin.lastPipeSpawn >= SPAWN_INTERVAL)
            t2Later == IF spawnLater THEN t1 + lag ELSE t1
        IN  /\ UpdateWith(now, t1, lag, r)
            /\ twin' = UpdateStateLater(twin, t1, t2Later, r, nextId)
            /\ UNCHANGED <<loopVars, quiet>>

KeyDownBoth ==
    \E code \in KeyCodes :
        KeyDownWith(code) /\ twin' = KeyDownLater(twin, code) /\ UNCHANGED quiet

ClickBoth == PointerBody("click") /\ twin' = PointerLater(twin) /\ UNCHANGED quiet

TouchStartBoth == PointerBody("touchstart") /\ twin' = PointerLater(twin) /\ UNCHANGED quiet

NextVariants == UpdateBoth \/ KeyDownBoth \/ ClickBoth \/ TouchStartBoth

SpecVariants == Init /\ [][NextVariants]_vars

\* ---- the game once the player stops jumping --------------------------------
\* From some moment on no listener is called with an input that jumps: Space,
\* click and touchstart reach the game only when it is over.  The frame driver
\* keeps calling update.
StopJumping ==
    /\ ~quiet
    /\ quiet' = TRUE
    /\ UNCHANGED <<sim, now, nextId, lastBorn, resetSince, last, loopVars, twin>>

KeyDownQuiet ==
    \E code \in KeyCodes :
        /\ (quiet /\ ~gameOver) => code # "Space"
        /\ KeyDownWith(code)
        /\ UNCHANGED <<twin, quiet>>

ClickQuiet == (quiet => gameOver) /\ Click

TouchStartQuiet == (quiet => gameOver) /\ TouchStart

NextQuiet == Update \/ StopJumping \/ KeyDownQuiet \/ ClickQuiet \/ TouchStartQuiet

\* update has just run its body on a game in Playing
TickTaken ==
    /\ ~gameOver
    /\ last'.op = "update"
    /\ last'.pre = Snapshot
    /\ bird' = BirdUpdate(bird)

\* The frame driver never stops: requestAnimationFrame(gameLoop) is called at
\* the end of every gameLoop, so as long as the game is in Playing, where update
\* can always run, ticks keep being taken.  This is weak fairness of the tick,
\* written with the tick's enabling condition, ~gameOver, spelled out.
TicksKeepComing == []<>gameOver \/ []<><<TickTaken>>_vars

SpecQuiet == Init /\ [][NextQuiet]_vars /\ TicksKeepComing

\* ---- checkCollision on its own --------------------------------------------
\* Positions to try the collision test on: the bird from above the screen to
\* below it, one pipe from left of the bird to right of it, edges touching
\* included.
InitCollision ==
    /\ \E y \in -1 .. SCREEN_HEIGHT : bird = [NewBird EXCEPT !.y = y]
    /\ \E x \in (BIRD_X - PIPE_WIDTH - 1) .. (BIRD_X + BIRD_WIDTH + 1), r \in RandomRange :
          pipes = <<[NewPipe(r, 0) EXCEPT !.x = x]>>
    /\ score = 0
    /\ gameOver = FALSE
    /\ lastPipeSpawn = 1
    /\ now = 1
    /\ nextId = 1
    /\ lastBorn = 1
    /\ resetSince = FALSE
    /\ last = [op |-> "new", pre |-> Constructed, at |-> 0]
    /\ LoopStarted
    /\ twin = ConstructedLater
    /\ quiet = FALSE

\* The collision step of the forEach callback, on the first pipe.
CollisionCheck ==
    /\ gameOver' = IF CheckCollision(pipes[1], bird) THEN TRUE ELSE gameOver
    /\ last' = [op |-> "checkCollision", pre |-> Snapshot, at |-> now]
    /\ UNCHANGED <<bird, pipes, score, lastPipeSpawn, now, nextId, lastBorn, resetSince, loopVars, twin, quiet>>

SpecCollision == InitCollision /\ [][CollisionCheck]_vars

\* ---- properties ---------------------------------------------------------
\* The handlers that call reset() when the game is over, and those that jump
\* when it is not.
ResetInputs == {"KeyR", "click", "touchstart"}
JumpInputs == {"Space", "click", "touchstart"}

Ids(ps) == [i \in 1 .. Len(ps) |-> ps[i].id]
PassedCount(ps) == Cardinality({i \in 1 .. Len(ps) : ps[i].passed})

\* C1: once gameOver is true, an update tick or an input that is not a reset
\* leaves score, the bird, the pipes and lastPipeSpawn as they are; the only
\* change possible is the one reset() makes.
C1_GameOverSticky ==
    [][gameOver =>
          IF last'.op \in ResetInputs
          THEN Snapshot' = Constructed
          ELSE UNCHANGED <<bird, pipes, score, gameOver, lastPipeSpawn>>]_vars

\* a tick has run on a finished game that holds a score, pipes and a spawn time
C1_Witness ==
    /\ last.op = "update"
    /\ last.pre.gameOver
    /\ gameOver
    /\ score > 0
    /\ pipes # <<>>
    /\ lastPipeSpawn # 0

\* C2: reset() applied to the fields of any reachable state gives score 0, no
\* pipes, the bird at mid-height with velocity 0 at BIRD_X, gameOver false and
\* lastPipeSpawn 0, which is the constructed state; and that is the state every
\* handler that calls it leaves.
C2_ResetRestores ==
    LET g == Reset(Snapshot)
    IN  /\ g.score = 0
        /\ g.pipes = <<>>
        /\ g.bird.y = SCREEN_HEIGHT \div 2
        /\ g.bird.vel = 0
        /\ g.bird.x = BIRD_X
        /\ g.gameOver = FALSE
        /\ g.lastPipeSpawn = 0
        /\ g = Constructed
        /\ (last.op \in ResetInputs /\ last.pre.gameOver) => Snapshot = g

\* reset() has just run on a finished game that had a score, pipes, a moved
\* bird and a spawn time
C2_Witness ==
    /\ last.op \in ResetInputs
    /\ last.pre.gameOver
    /\ last.pre.score > 0
    /\ last.pre.pipes # <<>>
    /\ last.pre.bird.y # SCREEN_HEIGHT \div 2
    /\ last.pre.bird.vel # 0
    /\ last.pre.lastPipeSpawn # 0
    /\ Snapshot = Constructed

\* C3 as stated: score is the number of pipes in the collection whose passed
\* flag is true.
C3_ScoreIsLivePassedCount == score = PassedCount(pipes)

\* C3, amended: score is the number of pipes constructed since the last reset
\* whose passed flag has been set, that is the live pipes with passed = true plus
\* the pipes the off-screen cleanup has removed.
C3_ScoreCountsPassedAndRemoved ==
    score = PassedCount(pipes) + (nextId - Len(pipes))

\* a passed pipe has been removed while another passed pipe is live
C3_Witness ==
    /\ last.op = "update"
    /\ Len(pipes) < Len(last.pre.pipes)
    /\ PassedCount(pipes) > 0
    /\ score > PassedCount(pipes)

\* C4 as stated, its "exactly once during its lifetime": a pipe that leaves the
\* collection has made the transition.
C4_EveryPipePassesOnce ==
    [][\A i \in 1 .. Len(pipes) :
          (\A j \in 1 .. Len(pipes') : pipes'[j].id # pipes[i].id) => pipes[i].passed]_vars

\* C4, amended: a pipe's passed flag never returns to false, it goes from false
\* to true in precisely the tick after which its right edge is for the first
\* time strictly left of the bird's x, score grows by exactly 1 in that tick
\* and by 0 in every other step but a reset; a pipe the cleanup removes has
\* made the transition, a pipe that reset() discards need not have.
C4_PassedOnceAtCrossing ==
    [][/\ \A i \in 1 .. Len(pipes), j \in 1 .. Len(pipes') :
             pipes'[j].id = pipes[i].id =>
                 /\ pipes[i].passed => pipes'[j].passed
                 /\ (~pipes[i].passed /\ pipes'[j].passed) <=>
                        /\ pipes[i].x + pipes[i].width >= bird.x
                        /\ pipes'[j].x + pipes'[j].width < bird'.x
       /\ \A j \in 1 .. Len(pipes') :
             (\A i \in 1 .. Len(pipes) : pipes[i].id # pipes'[j].id) => ~pipes'[j].passed
       /\ \A i \in 1 .. Len(pipes) :
             ((\A j \in 1 .. Len(pipes') : pipes'[j].id # pipes[i].id) /\ pipes' # <<>>)
                 => pipes[i].passed
       /\ Snapshot' # Constructed =>
             score' - score =
                 Cardinality({j \in 1 .. Len(pipes') : pipes'[j].passed}) -
                 Cardinality({i \in 1 .. Len(pipes) : pipes[i].passed /\
                                  \E j \in 1 .. Len(pipes') : pipes'[j].id = pipes[i].id})]_vars

\* a tick has just made a pipe pass: its flag is set, its right edge is left of
\* the bird and score has grown by one
C4_Witness ==
    /\ last.op = "update"
    /\ score = last.pre.score + 1
    /\ \E j \in 1 .. Len(pipes), i \in 1 .. Len(last.pre.pipes) :
          /\ pipes[j].id = last.pre.pipes[i].id
          /\ pipes[j].passed
          /\ ~last.pre.pipes[i].passed
          /\ pipes[j].x + pipes[j].width < bird.x

\* C5 as stated: whenever a pipe is constructed, at least SPAWN_INTERVAL of
\* clock time has passed since the previous pipe was constructed.
C5_SpawnSpacingAlways ==
    [][(nextId' = nextId + 1 /\ lastBorn # 0) =>
          last'.at - lastBorn >= SPAWN_INTERVAL]_vars

\* C5, amended: whenever a pipe is constructed, at least SPAWN_INTERVAL of clock
\* time has passed since the previous pipe was constructed, unless reset() has
\* run in between, however many ticks ran in between.
C5_SpawnSpacingWithinGame ==
    [][(nextId' = nextId + 1 /\ lastBorn # 0 /\ ~resetSince) =>
          last'.at - lastBorn >= SPAWN_INTERVAL]_vars

\* a tick has just constructed the second pipe of a game, SPAWN_INTERVAL after
\* the first, and earlier ticks of the game ran without constructing one
C5_Witness ==
    /\ last.op = "update"
    /\ nextId = 2
    /\ last.pre.lastPipeSpawn # 0
    /\ lastPipeSpawn # last.pre.lastPipeSpawn
    /\ last.at - last.pre.lastPipeSpawn = SPAWN_INTERVAL
    /\ last.pre.pipes # <<>>
    /\ last.pre.pipes[1].x < SCREEN_WIDTH - PIPE_SPEED

\* C6: after a tick in Playing state no live pipe has x + width < 0, and the
\* live pipes are exactly the pipes that were live before the tick (and the
\* pipe the tick constructed) whose right edge after the advance is >= 0, in
\* their previous order.
C6_OffscreenRemoval ==
    [][(last'.op = "update" /\ ~gameOver) =>
          /\ \A j \in 1 .. Len(pipes') : pipes'[j].x + pipes'[j].width >= 0
          /\ Ids(pipes') =
                Ids(SelectSeq(pipes, LAMBDA p : p.x - PIPE_SPEED + p.width >= 0))
                \o (IF nextId' = nextId + 1 THEN <<nextId>> ELSE <<>>)]_vars

\* a tick has just removed the oldest pipe and kept a younger one
C6_Witness ==
    /\ last.op = "update"
    /\ ~last.pre.gameOver
    /\ Len(last.pre.pipes) >= 2
    /\ pipes # <<>>
    /\ pipes[1].id = last.pre.pipes[2].id
    /\ last.pre.pipes[1].x - PIPE_SPEED + PIPE_WIDTH < 0

\* C7: a tick in Playing state makes the bird's velocity the old velocity plus
\* GRAVITY and its y the old y plus the new velocity, unclamped, and no step
\* changes the bird's x, which is BIRD_X.
C7_GravityIntegration ==
    [][/\ (last'.op = "update" /\ ~gameOver) =>
             /\ bird'.vel = bird.vel + GRAVITY
             /\ bird'.y = bird.y + bird'.vel
       /\ bird.x = BIRD_X
       /\ bird'.x = BIRD_X]_vars

\* a tick has just carried the rising bird above the top of the screen: its y
\* is negative, not clamped to 0
C7_Witness ==
    /\ last.op = "update"
    /\ ~last.pre.gameOver
    /\ bird.y < 0
    /\ bird.vel = last.pre.bird.vel + GRAVITY
    /\ bird.vel < 0

\* C8: a jump input in Playing state sets the bird's velocity to JUMP_STRENGTH
\* whatever it was and changes nothing else; a jump that follows a jump leaves
\* every field as it is.
C8_JumpOverwrites ==
    [][(last'.op \in JumpInputs /\ ~gameOver) =>
          /\ bird'.vel = JUMP_STRENGTH
          /\ bird' = [bird EXCEPT !.vel = JUMP_STRENGTH]
          /\ UNCHANGED <<pipes, score, gameOver, lastPipeSpawn>>
          /\ (last.op \in JumpInputs /\ ~last.pre.gameOver) => UNCHANGED sim]_vars

\* a jump has just overwritten a downward velocity, with pipes live
C8_Witness ==
    /\ last.op \in JumpInputs
    /\ ~last.pre.gameOver
    /\ last.pre.bird.vel > 0
    /\ bird.vel = JUMP_STRENGTH
    /\ bird.y = last.pre.bird.y
    /\ pipes # <<>>

\* C9: every live pipe has bottomY - topHeight = PIPE_GAP, and no step changes
\* the topHeight, bottomY or gap of a pipe that stays live.
C9_GapConstant ==
    [][/\ \A j \in 1 .. Len(pipes') :
             /\ pipes'[j].bottomY - pipes'[j].topHeight = PIPE_GAP
             /\ pipes'[j].gap = PIPE_GAP
       /\ \A i \in 1 .. Len(pipes), j \in 1 .. Len(pipes') :
             pipes'[j].id = pipes[i].id =>
                 /\ pipes'[j].topHeight = pipes[i].topHeight
                 /\ pipes'[j].bottomY = pipes[i].bottomY
                 /\ pipes'[j].gap = pipes[i].gap]_vars

\* a pipe drawn above the lowest position has been advanced, has passed the
\* bird and has survived a collision check and a cleanup
C9_Witness ==
    /\ last.op = "update"
    /\ \E j \in 1 .. Len(pipes) :
          /\ pipes[j].passed
          /\ pipes[j].topHeight > TOP_MARGIN
          /\ pipes[j].bottomY = pipes[j].topHeight + PIPE_GAP
    /\ Len(pipes) < Len(last.pre.pipes)

\* What a step does on constructing a pipe, given the least value lo and the
\* greatest value hi of topHeight: the constructor gives x = SCREEN_WIDTH and
\* passed = false for every draw, and the pipe that is new in the collection
\* has been advanced once and has lo <= topHeight <= hi.
ConstructsPipe(lo, hi) ==
    /\ \A r \in RandomRange :
          /\ NewPipe(r, nextId).x = SCREEN_WIDTH
          /\ NewPipe(r, nextId).passed = FALSE
    /\ \A j \in 1 .. Len(pipes') :
          (\A i \in 1 .. Len(pipes) : pipes[i].id # pipes'[j].id) =>
              /\ pipes'[j].x = SCREEN_WIDTH - PIPE_SPEED
              /\ pipes'[j].passed = FALSE
              /\ pipes'[j].topHeight >= lo
              /\ pipes'[j].topHeight <= hi

\* C10 as stated: a pipe is constructed with x = SCREEN_WIDTH, passed = false
\* and a topHeight in 50 .. SCREEN_HEIGHT - PIPE_GAP - 100.
C10_TopHeightAtMostRange ==
    [][ConstructsPipe(TOP_MARGIN, SCREEN_HEIGHT - PIPE_GAP - RANGE_CUT)]_vars

\* C10, amended: a pipe is constructed with x = SCREEN_WIDTH, passed = false and
\* a topHeight of at least 50 and less than 50 + (SCREEN_HEIGHT - PIPE_GAP - 100),
\* which is SCREEN_HEIGHT - PIPE_GAP - 50.
C10_PipeConstruction ==
    [][ConstructsPipe(TOP_MARGIN, TOP_MARGIN + (SCREEN_HEIGHT - PIPE_GAP - RANGE_CUT) - 1)]_vars

\* a tick has just constructed a pipe whose topHeight exceeds
\* SCREEN_HEIGHT - PIPE_GAP - 100
C10_Witness ==
    /\ last.op = "update"
    /\ pipes # <<>>
    /\ \A i \in 1 .. Len(last.pre.pipes) : last.pre.pipes[i].id # pipes[Len(pipes)].id
    /\ pipes[Len(pipes)].x = SCREEN_WIDTH - PIPE_SPEED
    /\ ~pipes[Len(pipes)].passed
    /\ pipes[Len(pipes)].topHeight > SCREEN_HEIGHT - PIPE_GAP - RANGE_CUT

\* The bird and the pipe of the example: top 100, bottom 124, pipe at x = 40,
\* 80 wide, gap from gapTop to 230.
ExampleBird == [x |-> 50, y |-> 100, vel |-> 0, width |-> 34, height |-> 24]
ExamplePipe(gapTop) == [x |-> 40, width |-> 80, gap |-> 230 - gapTop, topHeight |-> gapTop,
                        bottomY |-> 230, passed |-> FALSE, id |-> 0]

\* the test has just run on the pipe pipes[1] and the bird
Probed == last.op = "checkCollision" /\ bird = last.pre.bird /\ pipes = last.pre.pipes

\* C11 as stated: checkCollision is true iff the closed spans [x, x + width] and
\* [left, right] have a point in common and the bird's top is above gapTop or
\* its bottom below gapBottom.
C11_CollisionOnClosedSpans ==
    Probed =>
        (gameOver <=>
            /\ pipes[1].x <= bird.x + bird.width
            /\ bird.x <= pipes[1].x + pipes[1].width
            /\ (bird.y < pipes[1].topHeight \/ bird.y + bird.height > pipes[1].bottomY))

\* C11, amended: checkCollision is true iff the spans overlap by more than an
\* edge (right > x and left < x + width) and the bird's top is above gapTop or
\* its bottom below gapBottom; the example gives false with gapTop = 80 and
\* true with gapTop = 150.
C11_CollisionPredicate ==
    /\ Probed =>
          (gameOver <=>
              /\ pipes[1].x < bird.x + bird.width
              /\ bird.x < pipes[1].x + pipes[1].width
              /\ (bird.y < pipes[1].topHeight \/ bird.y + bird.height > pipes[1].bottomY))
    /\ CheckCollision(ExamplePipe(80), ExampleBird) = FALSE
    /\ CheckCollision(ExamplePipe(150), ExampleBird) = TRUE

\* the test has just answered false for a bird below the gap whose left edge
\* touches the pipe's right edge
C11_Witness ==
    /\ Probed
    /\ bird.x = pipes[1].x + pipes[1].width
    /\ bird.y + bird.height > pipes[1].bottomY
    /\ ~gameOver

\* What a step of an input handler does, resetters being the inputs that call
\* reset() on a finished game: a jump input in Playing overwrites the velocity
\* and nothing else, a resetter in GameOver leaves the constructed state, and
\* every other input leaves the simulation as it is.
InputEffects(resetters) ==
    LET op == last'.op
    IN  op \in KeyCodes \cup {"click", "touchstart"} =>
            IF op \in JumpInputs /\ ~gameOver
            THEN /\ bird' = [bird EXCEPT !.vel = JUMP_STRENGTH]
                 /\ UNCHANGED <<pipes, score, gameOver, lastPipeSpawn>>
            ELSE IF op \in resetters /\ gameOver
                 THEN Snapshot' = Constructed
                 ELSE UNCHANGED <<bird, pipes, score, gameOver, lastPipeSpawn>>

\* C12 as stated: the Space key, click and touchstart each jump in Playing and
\* reset in GameOver; KeyR resets in GameOver only; other keys change nothing.
C12_ActivateJumpsOrResets ==
    [][InputEffects({"Space", "click", "touchstart", "KeyR"})]_vars

\* C12, amended: click and touchstart jump in Playing and reset in GameOver; the
\* Space key jumps in Playing and changes nothing in GameOver; KeyR resets in
\* GameOver and changes nothing in Playing; other keys change nothing.
C12_InputSurface ==
    [][InputEffects({"click", "touchstart", "KeyR"})]_vars

\* the Space key has just been pressed on a finished game, which is still
\* finished, with its score and pipes
C12_Witness ==
    /\ last.op = "Space"
    /\ last.pre.gameOver
    /\ gameOver
    /\ score > 0
    /\ pipes # <<>>
    /\ Snapshot = last.pre

\* a frame callback has just run
Callback == frame'.at # frame.at

\* C13 as stated: every frame callback calls game.draw() exactly once.
C13_DrawEveryCallback == [][Callback => frame'.draws = 1]_vars

\* C13, amended: a frame callback calls game.draw() exactly once if it calls
\* game.update(), and not at all if it does not.
C13_DrawOnlyWithTick ==
    [][Callback =>
          /\ frame'.draws = frame'.ticks
          /\ frame'.draws \in {0, 1}]_vars

\* a callback has come less than FRAME_TIME after an initialised lastTime and
\* has called neither update nor draw
C13_Witness ==
    /\ frame.before # 0
    /\ frame.at - frame.before < FRAME_TIME
    /\ frame.ticks = 0
    /\ frame.draws = 0

\* deltaTime as the latest gameLoop call computed it (0 before any call)
FrameDelta == frame.at - (IF frame.before = 0 THEN frame.at ELSE frame.before)

\* whole quanta of FRAME_TIME elapsed between the first frame callback and the latest
QuantaElapsed == IF firstFrame = 0 THEN 0 ELSE (frame.at - firstFrame) \div FRAME_TIME

\* C14 as stated: the number of ticks executed so far equals the number of whole
\* quanta elapsed since the first callback, whatever the callback timestamps.
C14_TicksEqualQuanta == tickCount = QuantaElapsed

\* C14, amended: a callback calls update once if deltaTime has reached FRAME_TIME
\* and not at all otherwise, however many quanta deltaTime holds; the quanta
\* beyond the first are dropped, so the ticks executed never exceed the whole
\* quanta elapsed since the first callback.
C14_OneTickPerDueCallback ==
    [][Callback =>
          /\ frame'.ticks = (IF FrameDelta' >= FRAME_TIME THEN 1 ELSE 0)
          /\ tickCount' = tickCount + frame'.ticks
          /\ QuantaElapsed' - tickCount' =
                 (QuantaElapsed - tickCount) + (FrameDelta' \div FRAME_TIME) - frame'.ticks
          /\ tickCount' <= QuantaElapsed']_vars

\* a callback came two or more quanta after the previous tick and ran one tick
C14_Witness ==
    /\ tickCount >= 2
    /\ frame.before # 0
    /\ FrameDelta >= 2 * FRAME_TIME
    /\ frame.ticks = 1
    /\ tickCount < QuantaElapsed

\* C15: a callback ticks only when deltaTime = currentTime - lastTime has reached
\* FRAME_TIME (lastTime being the callback's own timestamp on the first
\* callback); without a tick lastTime keeps that value; after a tick it is
\* currentTime - (deltaTime mod FRAME_TIME), so the remainder carried is in
\* [0, FRAME_TIME) and lastTime never exceeds currentTime.
C15_Accumulator ==
    /\ lastTime <= frame.at
    /\ frame.at - lastTime \in 0 .. (FRAME_TIME - 1)
    /\ frame.ticks = 1 =>
           /\ FrameDelta >= FRAME_TIME
           /\ lastTime = frame.at - (FrameDelta % FRAME_TIME)
    /\ frame.ticks = 0 =>
           /\ FrameDelta < FRAME_TIME
           /\ lastTime = (IF frame.before = 0 THEN frame.at ELSE frame.before)

\* a tick has carried a remainder forward, after a callback that came too early
\* to tick
C15_Witness ==
    /\ frame.ticks = 1
    /\ frame.before # 0
    /\ frame.at - lastTime >= 1
    /\ frame.before > firstFrame

\* a tick has just run on a game that was Playing
PlayingTick == ~gameOver /\ last'.op = "update" /\ last'.pre = Snapshot

\* C16: a tick in Playing sets gameOver whenever the bird, after that tick's
\* physics step, has y < 0 or y + height > SCREEN_HEIGHT; so whenever gameOver is
\* false the bird lies within the screen, 0 <= y and y + height <= SCREEN_HEIGHT.
C16_BoundsEndGame ==
    /\ [](~gameOver => (0 <= bird.y /\ bird.y + bird.height <= SCREEN_HEIGHT))
    /\ [][PlayingTick =>
             /\ bird' = BirdUpdate(bird)
             /\ (bird'.y < 0 \/ bird'.y + bird'.height > SCREEN_HEIGHT) => gameOver']_vars

\* a tick has ended the game because the bird left through the top of the
\* screen, no pipe colliding with it
C16_Witness ==
    /\ last.op = "update"
    /\ ~last.pre.gameOver
    /\ gameOver
    /\ bird.y < 0
    /\ \A j \in 1 .. Len(pipes) : ~CheckCollision(pipes[j], bird)

\* the inputs the three listeners react to
InputNames == KeyCodes \cup {"click", "touchstart"}

\* C17: gameOver has two values and is false after construction and after
\* reset; it turns true only inside a tick, on a pipe collision or a bounds
\* violation; it turns false only by reset(); no input resets a game in Playing.
C17_TwoStateMachine ==
    /\ ~gameOver
    /\ [](gameOver \in BOOLEAN)
    /\ [][/\ (~gameOver /\ gameOver') =>
                 /\ last'.op = "update"
                 /\ last'.pre = Snapshot
                 /\ \/ OutOfBounds(bird')
                    \/ \E j \in 1 .. Len(pipes') : CheckCollision(pipes'[j], bird')
          /\ (gameOver /\ ~gameOver') =>
                 /\ last'.op \in ResetInputs
                 /\ Snapshot' = Reset(Snapshot)
                 /\ Snapshot' = Constructed
          /\ (~gameOver /\ last'.op \in InputNames) =>
                 /\ ~gameOver'
                 /\ bird'.y = bird.y
                 /\ <<pipes, score, lastPipeSpawn>>' = <<pipes, score, lastPipeSpawn>>]_vars

\* a game has ended on a pipe, the bird within the screen, and an input has
\* reset it to Playing
C17_Witness ==
    /\ last.op \in ResetInputs
    /\ last.pre.gameOver
    /\ ~OutOfBounds(last.pre.bird)
    /\ \E j \in 1 .. Len(last.pre.pipes) : CheckCollision(last.pre.pipes[j], last.pre.bird)
    /\ ~gameOver
    /\ Snapshot = Constructed

\* pipe p as one tick's advance leaves it, its passed flag aside
Advanced(p) == [p EXCEPT !.x = @ - PIPE_SPEED]

\* a tick has just run on a game that was Playing and a pipe it advanced
\* collides with the bird it moved
CollidingTick ==
    /\ PlayingTick
    /\ \E i \in 1 .. Len(pipes) : CheckCollision(Advanced(pipes[i]), bird')

\* C18: in a tick in which a pipe collides with the bird, every pipe, those
\* after the colliding one included, is still advanced by PIPE_SPEED and has
\* its pass check applied, score counts every pass, the pipes left of the
\* screen are removed and the bounds check is made; gameOver is set.
C18_CollisionDoesNotBreakLoop ==
    [][CollidingTick =>
          /\ gameOver'
          /\ bird' = BirdUpdate(bird)
          /\ \A i \in 1 .. Len(pipes) :
                LET p1 == Advanced(pipes[i])
                IN  IF p1.x + p1.width >= 0
                    THEN \E j \in 1 .. Len(pipes') :
                            /\ pipes'[j].id = p1.id
                            /\ pipes'[j].x = pipes[i].x - PIPE_SPEED
                            /\ pipes'[j].passed = (p1.passed \/ p1.x + p1.width < bird'.x)
                    ELSE \A j \in 1 .. Len(pipes') : pipes'[j].id # p1.id
          /\ \A j \in 1 .. Len(pipes') : pipes'[j].x + pipes'[j].width >= 0
          /\ score' = score + Cardinality({i \in 1 .. Len(pipes) :
                                 /\ ~pipes[i].passed
                                 /\ pipes[i].x - PIPE_SPEED + pipes[i].width < bird'.x})
          /\ OutOfBounds(bird') => gameOver']_vars

\* a tick has ended the game on one pipe, has made an earlier pipe pass and has
\* advanced a pipe that comes after the colliding one
C18_Witness ==
    /\ last.op = "update"
    /\ ~last.pre.gameOver
    /\ gameOver
    /\ score = last.pre.score + 1
    /\ \E i \in 1 .. Len(last.pre.pipes), k \in 1 .. Len(last.pre.pipes), j \in 1 .. Len(pipes) :
          /\ i < k
          /\ CheckCollision(Advanced(last.pre.pipes[i]), bird)
          /\ pipes[j].id = last.pre.pipes[k].id
          /\ pipes[j].x = last.pre.pipes[k].x - PIPE_SPEED

\* the per-pipe loop with the collision test made before the pass check
RECURSIVE ForEachPipeSwapped(_, _, _)
ForEachPipeSwapped(i, acc, b) ==
    IF i > Len(acc.pipes) THEN acc
    ELSE LET p1 == PipeUpdate(acc.pipes[i])
             o2 == IF CheckCollision(p1, b) THEN TRUE ELSE acc.gameOver
             scores == Scores(p1, b)
             p2 == IF scores THEN [p1 EXCEPT !.passed = TRUE] ELSE p1
             s2 == IF scores THEN acc.score + 1 ELSE acc.score
         IN  ForEachPipeSwapped(i + 1,
                                [pipes |-> [acc.pipes EXCEPT ![i] = p2], score |-> s2,
                                 gameOver |-> o2],
                                b)

\* the pipes the loop of the tick just taken ran over: the live pipes and, if
\* the tick constructed one, the new pipe as constructed
LoopPipes ==
    IF nextId' = nextId + 1
    THEN Append(pipes, [pipes'[Len(pipes')] EXCEPT !.x = SCREEN_WIDTH])
    ELSE pipes

\* C19: in a tick no pipe meets both the pass test (not passed and
\* x + width < bird.x) and the collision test, and the loop with the two tests
\* in the other order leaves the same score, passed flags and gameOver.
C19_PassAndCollisionExclusive ==
    [][PlayingTick =>
          /\ \A i \in 1 .. Len(LoopPipes) :
                LET p1 == Advanced(LoopPipes[i])
                IN  /\ Scores(p1, bird') <=> (~p1.passed /\ p1.x + p1.width < bird'.x)
                    /\ ~(Scores(p1, bird') /\ CheckCollision(p1, bird'))
          /\ LET sw == ForEachPipeSwapped(1, [pipes |-> LoopPipes, score |-> score,
                                              gameOver |-> FALSE], bird')
             IN  /\ score' = sw.score
                 /\ pipes' = FilterOnscreen(sw.pipes)
                 /\ gameOver' = (sw.gameOver \/ OutOfBounds(bird'))]_vars

\* a tick has made a pipe pass while the bird was level with the pipe's body,
\* outside its gap: only the horizontal test keeps the two apart
C19_Witness ==
    /\ last.op = "update"
    /\ ~last.pre.gameOver
    /\ ~gameOver
    /\ \E j \in 1 .. Len(pipes), i \in 1 .. Len(last.pre.pipes) :
          /\ pipes[j].id = last.pre.pipes[i].id
          /\ pipes[j].passed
          /\ ~last.pre.pipes[i].passed
          /\ (bird.y < pipes[j].topHeight \/ bird.y + bird.height > pipes[j].bottomY)

\* C20: a tick moves the bird first, then spawns, then advances every pipe, the
\* new one included (it ends its first tick at SCREEN_WIDTH - PIPE_SPEED), and
\* applies the pass and collision tests to the advanced pipe and the moved
\* bird, then removes the pipes left of the screen and tests the moved bird
\* against the screen bounds.
C20_TickOrder ==
    [][PlayingTick =>
          /\ bird' = BirdUpdate(bird)
          /\ nextId' = nextId + 1 =>
                /\ pipes' # <<>>
                /\ pipes'[Len(pipes')].id = nextId
                /\ pipes'[Len(pipes')].x = SCREEN_WIDTH - PIPE_SPEED
          /\ Len(pipes') = Cardinality({i \in 1 .. Len(LoopPipes) :
                                 LoopPipes[i].x - PIPE_SPEED + LoopPipes[i].width >= 0})
          /\ \A j \in 1 .. Len(pipes') : \E i \in 1 .. Len(LoopPipes) :
                /\ pipes'[j].id = LoopPipes[i].id
                /\ pipes'[j].x = LoopPipes[i].x - PIPE_SPEED
                /\ pipes'[j].passed =
                       (LoopPipes[i].passed \/ pipes'[j].x + pipes'[j].width < bird'.x)
          /\ gameOver' =
                \/ \E i \in 1 .. Len(LoopPipes) : CheckCollision(Advanced(LoopPipes[i]), bird')
                \/ bird'.y < 0
                \/ bird'.y + bird'.height > SCREEN_HEIGHT]_vars

\* a tick has constructed a pipe and has ended the game on another pipe, which
\* collides with the bird only where the tick's advance has put the pipe and
\* only where the tick's physics has put the bird
C20_Witness ==
    /\ last.op = "update"
    /\ ~last.pre.gameOver
    /\ gameOver
    /\ ~OutOfBounds(bird)
    /\ Len(pipes) >= 2
    /\ pipes[Len(pipes)].x = SCREEN_WIDTH - PIPE_SPEED
    /\ \A i \in 1 .. Len(last.pre.pipes) : last.pre.pipes[i].id # pipes[Len(pipes)].id
    /\ \A i \in 1 .. Len(last.pre.pipes) :
          /\ ~CheckCollision(last.pre.pipes[i], bird)
          /\ ~CheckCollision(Advanced(last.pre.pipes[i]), last.pre.bird)

\* every position of a bird against a pipe: heights from above the screen to
\* below it, pipes from clear of the bird on the left to clear of it on the right
CollisionVariantsAgree ==
    \A y \in -BIRD_HEIGHT - 1 .. SCREEN_HEIGHT + 1,
       x \in (BIRD_X - PIPE_WIDTH - 1) .. (BIRD_X + BIRD_WIDTH + 1),
       r \in RandomRange :
        LET b == [NewBird EXCEPT !.y = y]
            p == [NewPipe(r, 0) EXCEPT !.x = x]
        IN  CheckCollision(p, b) = CheckCollisionNested(p, [NewBirdLater EXCEPT !.y = y])

\* C21: the two-branch checkCollision and the nested one agree on every
\* position, and the two variants, given the same constants, clock readings,
\* draws and inputs, hold the same score, gameOver, bird y and velocity, pipes
\* and lastPipeSpawn after every step.
C21_VariantsAgree ==
    /\ CollisionVariantsAgree
    /\ twin.score = score
    /\ twin.gameOver = gameOver
    /\ twin.bird.y = bird.y
    /\ twin.bird.vel = bird.vel
    /\ twin.bird.x = bird.x
    /\ twin.pipes = pipes
    /\ twin.lastPipeSpawn = lastPipeSpawn

\* both variants have just ended a game with points scored on the bottom half
\* of a pipe, the later one with its bird tilted
C21_Witness ==
    /\ last.op = "update"
    /\ ~last.pre.gameOver
    /\ twin.gameOver
    /\ twin.score >= 1
    /\ twin.bird.rotation # 0
    /\ ~OutOfBounds(bird)
    /\ \E j \in 1 .. Len(twin.pipes) :
          /\ CheckCollisionNested(twin.pipes[j], twin.bird)
          /\ twin.bird.y >= twin.pipes[j].topHeight

\* C22: in every state, Playing or GameOver, a live pipe has passed = true if
\* and only if its right edge is strictly left of the bird's x.
C22_PassedIffBehindBird ==
    \A j \in 1 .. Len(pipes) :
        pipes[j].passed <=> (pipes[j].x + pipes[j].width < bird.x)

\* a finished game holds a pipe that is counted and a pipe that straddles the
\* bird's x, not counted
C22_Witness ==
    /\ gameOver
    /\ last.op = "update"
    /\ last.pre.gameOver
    /\ \E i \in 1 .. Len(pipes), j \in 1 .. Len(pipes) :
          /\ pipes[i].passed
          /\ pipes[i].x + pipes[i].width < bird.x
          /\ ~pipes[j].passed
          /\ pipes[j].x + pipes[j].width >= bird.x
          /\ pipes[j].x < bird.x

\* C23: once the player has stopped jumping and ticks keep coming, a game in
\* Playing reaches GameOver; and a click, touchstart or KeyR on a game that is
\* over leaves it Playing.
C23_FallsToGameOver ==
    /\ (quiet /\ ~gameOver) ~> gameOver
    /\ [][(gameOver /\ last'.op \in ResetInputs /\ last'.pre = Snapshot) => ~gameOver']_vars

\* with the player quiet, a tick has put the falling bird through the floor
C23_Witness ==
    /\ quiet
    /\ last.op = "update"
    /\ ~last.pre.gameOver
    /\ gameOver
    /\ bird.vel > 0
    /\ bird.y + bird.height > SCREEN_HEIGHT
    /\ \A j \in 1 .. Len(pipes) : ~CheckCollision(pipes[j], bird)

\* the pipes of the next state that the current state does not hold
Created == {j \in 1 .. Len(pipes') : \A i \in 1 .. Len(pipes) : pipes[i].id # pipes'[j].id}

\* C24: a step creates at most one pipe; a tick on a game in Playing with
\* lastPipeSpawn = 0 creates exactly one, whatever the clock reads; a tick that
\* creates a pipe leaves lastPipeSpawn at the clock reading it took for it,
\* which is not 0, a tick that creates none leaves it alone, and only reset()
\* lowers it, to 0.
C24_SpawnSentinel ==
    [][/\ Cardinality(Created) <= 1
       /\ (PlayingTick /\ lastPipeSpawn = 0) => Cardinality(Created) = 1
       /\ PlayingTick =>
             IF Created # {}
             THEN /\ lastPipeSpawn' = now'
                  /\ lastPipeSpawn' # 0
                  /\ lastPipeSpawn' >= last'.at
             ELSE lastPipeSpawn' = lastPipeSpawn
       /\ ~PlayingTick => Created = {}
       /\ lastPipeSpawn' < lastPipeSpawn =>
             /\ last'.op \in ResetInputs
             /\ gameOver
             /\ lastPipeSpawn' = 0]_vars

\* the first tick of a game, run when the clock had moved on since the
\* construction, has created the game's only pipe and has stored the second of
\* its two clock readings, later than the one its test was made with
C24_Witness ==
    /\ last.op = "update"
    /\ last.pre = Constructed
    /\ last.at > 1
    /\ Len(pipes) = 1
    /\ nextId = 1
    /\ lastPipeSpawn = now
    /\ lastPipeSpawn > last.at

====
